---- MODULE Spec2Model ----
(***************************************************************************)
(* LazyStreamContext of torch/csrc/distributed/rpc/utils.h: the per-call   *)
(* map from device index to a reserved stream, and the cross-stream        *)
(* synchronisation that waitForCurrentStreams inserts between the caller's *)
(* current stream and the reserved stream of each device.                  *)
(***************************************************************************)
EXTENDS Integers, Sequences, FiniteSets, TLC

(* ------------------------------ bounds -------------------------------- *)
MaxIndex == 1          \* device indices are 0..MaxIndex
PoolSize == 2          \* streams per device in the creator's pool
MaxTensors == 2        \* longest tensor list passed to waitForCurrentStreams
MaxWaitCalls == 2      \* waitForCurrentStreams calls per context
MaxWork == 2           \* units of device work enqueued in one behaviour

(* ------------------------------ values -------------------------------- *)
Types == {"CPU", "CUDA"}
Indices == 0..MaxIndex

Stream(t, i, k) == [type |-> t, index |-> i, id |-> k]
NoStream == Stream("none", -1, -1)

\* the stream the caller is ambiently using on device i (the default stream)
AmbientStream(i) == Stream("CUDA", i, 0)
PoolStreams == {Stream("CUDA", i, k) : i \in Indices, k \in 1..PoolSize}
AllStreams == {AmbientStream(i) : i \in Indices} \cup PoolStreams

Tensor(t, i) == [type |-> t, index |-> i]
Tensors == {Tensor(t, i) : t \in Types, i \in Indices}
TensorLists == UNION {[1..n -> Tensors] : n \in 0..MaxTensors}

Work(n) == [kind |-> "work", n |-> n, dev |-> 0]
Record(e) == [kind |-> "record", n |-> e.call, dev |-> e.dev]
Wait(e) == [kind |-> "wait", n |-> e.call, dev |-> e.dev]
EventOf(item) == [call |-> item.n, dev |-> item.dev]

VARIABLES
  streams_,       \* the cache: device index -> reserved stream
  cudaAvailable,  \* whether the stream creator can produce CUDA streams
  currentAvail,   \* per index: whether the current-stream provider reports one
  poolNext,       \* per index: round-robin position of the creator's pool
  first,          \* per index: the stream returned by the first successful getStream
  waitCalls,      \* number of waitForCurrentStreams calls that reached the second loop
  ret,            \* the outcome of the last call on the context
  queue,          \* per stream: the items enqueued and not yet issued
  running,        \* per stream: the unit of work executing (0: none)
  done,           \* units of work that completed
  recordedOn,     \* recorded events -> the stream each was recorded on
  completed,      \* recorded events whose marker was reached
  work,           \* per unit of work: its stream, the calls before it, the work it follows
  synced,         \* per index: ambient work covered by a waitForCurrentStreams
  pc,             \* per thread: its position inside getStream
  local,          \* per thread: the arguments and locals of its getStream call
  calls,          \* per thread: getStream calls begun
  handed,         \* per index: the stream handles getStream has returned
  created,        \* per index: streams the creator was invoked for and made
  overlapped,     \* whether a getStream call began while another was in progress
  originalPayload,  \* the payload bytes of the message at hand
  wireTensors,    \* the tensors of the message at hand
  data,           \* the wire buffer
  out             \* the outcome of the last codec operation

ctxVars == <<streams_, poolNext, first>>
cfgVars == <<cudaAvailable, currentAvail>>
devVars == <<queue, running, done, recordedOn, completed, work, synced>>
thrVars == <<pc, local, calls, handed, created, overlapped>>
wireVars == <<originalPayload, wireTensors, data, out>>
extVars == <<thrVars, wireVars>>
vars == <<ctxVars, cfgVars, waitCalls, ret, devVars, extVars>>

NoneInvoked == [i \in Indices |-> 0]

\* what the caller of a context method observes: its arguments, how it ended,
\* what it returned, the cache before it ran and, per index, the creator
\* invocations it made
Ret(op, status) ==
  [op |-> op, status |-> status, type |-> "none", index |-> -1,
   tensors |-> <<>>, stream |-> NoStream, invoked |-> NoneInvoked,
   streams |-> <<>>, devs |-> {}, before |-> streams_]

(* --------------------------- the providers ---------------------------- *)
\* streamCreator_: the next stream of the requested device's pool, or nothing
\* when the device type has no streams
StreamCreator(avail, pool, device_type, index) ==
  IF device_type = "CUDA" /\ avail
    THEN Stream("CUDA", index, pool[index] + 1)
    ELSE NoStream

PoolAfter(pool, stream) ==
  IF stream = NoStream THEN pool
  ELSE [pool EXCEPT ![stream.index] = (@ + 1) % PoolSize]

\* currentStreamProvider_: the caller's current stream of the device
CurrentStreamProvider(avail, device_type, index) ==
  IF device_type = "CUDA" /\ avail[index]
    THEN AmbientStream(index)
    ELSE NoStream

(* ------------------------------ getStream ----------------------------- *)
\* ctx is [streams, pool]: the cache and the state of the creator's pool
Ctx == [streams |-> streams_, pool |-> poolNext]

\* getStream without the emplace: the created stream is returned, not cached
getStreamNoCache(ctx, avail, device_type, index) ==
  IF index \notin DOMAIN ctx.streams
    THEN LET stream == StreamCreator(avail, ctx.pool, device_type, index)
             called == [ctx EXCEPT !.pool = PoolAfter(@, stream)]
         IN IF stream # NoStream
              THEN [ctx |-> called, status |-> "ok", stream |-> stream,
                    invoked |-> 1]
              ELSE [ctx |-> called, status |-> "error", stream |-> NoStream,
                    invoked |-> 1]
    ELSE [ctx |-> ctx, status |-> "ok", stream |-> ctx.streams[index],
          invoked |-> 0]

\* getStream returning nothing, without the throw, when the creator does
getStreamNoThrow(ctx, avail, device_type, index) ==
  IF index \notin DOMAIN ctx.streams
    THEN LET stream == StreamCreator(avail, ctx.pool, device_type, index)
             called == [ctx EXCEPT !.pool = PoolAfter(@, stream)]
         IN IF stream # NoStream
              THEN [ctx |-> [called EXCEPT !.streams = (index :> stream) @@ @],
                    status |-> "ok", stream |-> stream, invoked |-> 1]
              ELSE [ctx |-> called, status |-> "ok", stream |-> NoStream,
                    invoked |-> 1]
    ELSE [ctx |-> ctx, status |-> "ok", stream |-> ctx.streams[index],
          invoked |-> 0]

\* getStream looking up and filling the cache under key 0 whatever the index
getStreamFixedKey(ctx, avail, device_type, index) ==
  IF 0 \notin DOMAIN ctx.streams
    THEN LET stream == StreamCreator(avail, ctx.pool, device_type, index)
             called == [ctx EXCEPT !.pool = PoolAfter(@, stream)]
         IN IF stream # NoStream
              THEN [ctx |-> [called EXCEPT !.streams = (0 :> stream) @@ @],
                    status |-> "ok", stream |-> stream, invoked |-> 1]
              ELSE [ctx |-> called, status |-> "error", stream |-> NoStream,
                    invoked |-> 1]
    ELSE [ctx |-> ctx, status |-> "ok", stream |-> ctx.streams[0],
          invoked |-> 0]

\* getStream creating a stream on every call and storing it over the entry
getStreamAlwaysCreate(ctx, avail, device_type, index) ==
  LET stream == StreamCreator(avail, ctx.pool, device_type, index)
      called == [ctx EXCEPT !.pool = PoolAfter(@, stream)]
  IN IF stream # NoStream
       THEN [ctx |-> [called EXCEPT !.streams = (index :> stream) @@ @],
             status |-> "ok", stream |-> stream, invoked |-> 1]
       ELSE [ctx |-> called, status |-> "error", stream |-> NoStream,
             invoked |-> 1]

\* getStream taking an entry of another device type for a miss
getStreamTypeChecked(ctx, avail, device_type, index) ==
  IF index \notin DOMAIN ctx.streams \/ ctx.streams[index].type # device_type
    THEN LET stream == StreamCreator(avail, ctx.pool, device_type, index)
             called == [ctx EXCEPT !.pool = PoolAfter(@, stream)]
         IN IF stream # NoStream
              THEN [ctx |-> [called EXCEPT !.streams = (index :> stream) @@ @],
                    status |-> "ok", stream |-> stream, invoked |-> 1]
              ELSE [ctx |-> called, status |-> "error", stream |-> NoStream,
                    invoked |-> 1]
    ELSE [ctx |-> ctx, status |-> "ok", stream |-> ctx.streams[index],
          invoked |-> 0]

getStream(ctx, avail, device_type, index) ==
  IF index \notin DOMAIN ctx.streams
    THEN LET stream == StreamCreator(avail, ctx.pool, device_type, index)
             called == [ctx EXCEPT !.pool = PoolAfter(@, stream)]
         IN IF stream # NoStream
              THEN [ctx |-> [called EXCEPT !.streams = (index :> stream) @@ @],
                    status |-> "ok", stream |-> stream, invoked |-> 1]
              ELSE [ctx |-> called, status |-> "error", stream |-> NoStream,
                    invoked |-> 1]
    ELSE [ctx |-> ctx, status |-> "ok", stream |-> ctx.streams[index],
          invoked |-> 0]

\* what a caller saw: the stream of the first successful getStream per index
Observed(fst, index, r) ==
  IF r.status = "ok" /\ index \notin DOMAIN fst
    THEN (index :> r.stream) @@ fst
    ELSE fst

(* ------------------------- waitForCurrentStreams ---------------------- *)
\* the first loop leaving after its first tensor
ReserveAllFirstOnly(ctx, fst, inv, avail, tensors) ==
  IF tensors = <<>>
    THEN [ctx |-> ctx, first |-> fst, invoked |-> inv, status |-> "ok"]
    ELSE LET tensor == Head(tensors)
             r == getStream(ctx, avail, tensor.type, tensor.index)
             inv1 == [inv EXCEPT ![tensor.index] = @ + r.invoked]
         IN [ctx |-> r.ctx,
             first |-> IF r.status = "error" THEN fst
                       ELSE Observed(fst, tensor.index, r),
             invoked |-> inv1, status |-> r.status]

\* the first loop catching the error of a tensor and going on to the next
RECURSIVE ReserveAllSwallow(_, _, _, _, _)
ReserveAllSwallow(ctx, fst, inv, avail, tensors) ==
  IF tensors = <<>>
    THEN [ctx |-> ctx, first |-> fst, invoked |-> inv, status |-> "ok"]
    ELSE LET tensor == Head(tensors)
             r == getStream(ctx, avail, tensor.type, tensor.index)
             inv1 == [inv EXCEPT ![tensor.index] = @ + r.invoked]
         IN ReserveAllSwallow(r.ctx, Observed(fst, tensor.index, r), inv1, avail,
                              Tail(tensors))

\* first loop: getStream for every tensor in list order; an error ends the call
RECURSIVE ReserveAll(_, _, _, _, _)
ReserveAll(ctx, fst, inv, avail, tensors) ==
  IF tensors = <<>>
    THEN [ctx |-> ctx, first |-> fst, invoked |-> inv, status |-> "ok"]
    ELSE LET tensor == Head(tensors)
             r == getStream(ctx, avail, tensor.type, tensor.index)
             inv1 == [inv EXCEPT ![tensor.index] = @ + r.invoked]
         IN IF r.status = "error"
              THEN [ctx |-> r.ctx, first |-> fst, invoked |-> inv1,
                    status |-> "error"]
              ELSE ReserveAll(r.ctx, Observed(fst, tensor.index, r), inv1, avail,
                              Tail(tensors))

\* dv is [queue, recordedOn, completed, hostWaits]: the device-side state and
\* the streams the calling thread synchronises with before it returns
Dv == [queue |-> queue, recordedOn |-> recordedOn, completed |-> completed,
       hostWaits |-> {}]

\* one event per device, recorded again by every call
NewEventReused(call, index) == [call |-> 0, dev |-> index]

\* c10::Event event{device_type}: a fresh event per entry and per call
NewEvent(call, index) == [call |-> call, dev |-> index]

\* event.record(stream): a marker behind the work enqueued so far
EventRecord(dv, event, stream) ==
  [dv EXCEPT !.queue[stream] = Append(@, Record(event)),
             !.recordedOn = (event :> stream) @@ @,
             !.completed = @ \ {event}]

\* event.block(stream): later work of stream waits for the event
EventBlock(dv, event, stream) ==
  IF event \in DOMAIN dv.recordedOn
    THEN [dv EXCEPT !.queue[stream] = Append(@, Wait(event))]
    ELSE dv

\* the entry's body with block issued before record
SyncEntryBlockFirst(dv, avail, call, index, reserved) ==
  LET current_stream == CurrentStreamProvider(avail, reserved.type, index)
  IN IF current_stream # NoStream
       THEN LET event == NewEvent(call, index)
            IN EventRecord(EventBlock(dv, event, reserved), event, current_stream)
       ELSE dv

\* the entry's body with the calling thread synchronising with the event
SyncEntryHostSync(dv, avail, call, index, reserved) ==
  LET current_stream == CurrentStreamProvider(avail, reserved.type, index)
  IN IF current_stream # NoStream
       THEN LET event == NewEvent(call, index)
                rec == EventRecord(dv, event, current_stream)
            IN [EventBlock(rec, event, reserved) EXCEPT
                  !.hostWaits = @ \cup {current_stream}]
       ELSE dv

\* the entry's body asking the provider for device 0 whatever the entry
SyncEntryDevice0(dv, avail, call, index, reserved) ==
  LET current_stream == CurrentStreamProvider(avail, reserved.type, 0)
  IN IF current_stream # NoStream
       THEN LET event == NewEvent(call, index)
            IN EventBlock(EventRecord(dv, event, current_stream), event, reserved)
       ELSE dv

\* the entry's body falling back to the default stream of the device when
\* the provider reports none
SyncEntryDefaultStream(dv, avail, call, index, reserved) ==
  LET event == NewEvent(call, index)
  IN EventBlock(EventRecord(dv, event, AmbientStream(index)), event, reserved)

\* body of the second loop for one entry of streams_
SyncEntry(dv, avail, call, index, reserved) ==
  LET current_stream == CurrentStreamProvider(avail, reserved.type, index)
  IN IF current_stream # NoStream
       THEN LET event == NewEvent(call, index)
            IN EventBlock(EventRecord(dv, event, current_stream), event, reserved)
       ELSE dv

\* a second loop over the devices of the tensors just passed only
SyncTargetsOfTensors(streams, tensors) ==
  {i \in DOMAIN streams : \E k \in DOMAIN tensors : tensors[k].index = i}

\* the entries the second loop visits
SyncTargets(streams, tensors) == DOMAIN streams

\* the orders in which an unordered_map of these keys can be iterated
Orders(S) ==
  {o \in [1..Cardinality(S) -> S] : \A a, b \in DOMAIN o : o[a] = o[b] => a = b}

RECURSIVE SyncAll(_, _, _, _, _)
SyncAll(dv, avail, call, streams, order) ==
  IF order = <<>>
    THEN dv
    ELSE SyncAll(SyncEntry(dv, avail, call, Head(order), streams[Head(order)]),
                 avail, call, streams, Tail(order))

\* the ambient work enqueued so far on the current stream of index i, when the
\* second loop has an entry for i and the provider reports a stream
Covered(streams, avail, i) ==
  IF i \in DOMAIN streams
     /\ CurrentStreamProvider(avail, streams[i].type, i) # NoStream
    THEN {w \in 1..Len(work) :
            work[w].stream = CurrentStreamProvider(avail, streams[i].type, i)}
    ELSE {}

WaitForCurrentStreams(tensors) ==
  LET r == ReserveAll(Ctx, first, NoneInvoked, cudaAvailable, tensors)
      call == waitCalls + 1
  IN /\ streams_' = r.ctx.streams
     /\ poolNext' = r.ctx.pool
     /\ first' = r.first
     /\ IF r.status = "error"
          THEN UNCHANGED <<waitCalls, devVars>>
          ELSE /\ waitCalls < MaxWaitCalls
               /\ waitCalls' = call
               /\ \E order \in Orders(SyncTargets(r.ctx.streams, tensors)) :
                    LET dv == SyncAll(Dv, currentAvail, call, r.ctx.streams, order)
                    IN /\ \A s \in dv.hostWaits : queue[s] = <<>> /\ running[s] = 0
                       /\ queue' = dv.queue
                       /\ recordedOn' = dv.recordedOn
                       /\ completed' = dv.completed
               /\ synced' = [i \in Indices |->
                               synced[i] \cup Covered(r.ctx.streams, currentAvail, i)]
               /\ UNCHANGED <<running, done, work>>
     /\ UNCHANGED cfgVars

(* ------------------------ the other context calls --------------------- *)
GetStream(device_type, index) ==
  /\ LET r == getStream(Ctx, cudaAvailable, device_type, index)
     IN /\ streams_' = r.ctx.streams
        /\ poolNext' = r.ctx.pool
        /\ first' = Observed(first, index, r)
  /\ UNCHANGED <<waitCalls, cfgVars, devVars>>

\* getReservedStreams leaving out the first entry it iterates over
getReservedStreamsSkipFirst(streams, order) ==
  [k \in 1..(Len(order) - 1) |-> streams[order[k + 1]]]

\* getReservedStreams(): the cached streams, in the map's iteration order
getReservedStreams(streams, order) == [k \in DOMAIN order |-> streams[order[k]]]

GetReservedStreams ==
  UNCHANGED <<ctxVars, waitCalls, cfgVars, devVars>>

\* devices(): the keys of the cache
devices(streams) == DOMAIN streams

Devices ==
  UNCHANGED <<ctxVars, waitCalls, cfgVars, devVars>>

\* the outcome each call hands to its caller
GetStreamRet(device_type, index) ==
  LET r == getStream(Ctx, cudaAvailable, device_type, index)
  IN [Ret("getStream", r.status) EXCEPT
        !.type = device_type, !.index = index, !.stream = r.stream,
        !.invoked[index] = r.invoked]

WaitForCurrentStreamsRet(tensors) ==
  LET r == ReserveAll(Ctx, first, NoneInvoked, cudaAvailable, tensors)
  IN [Ret("waitForCurrentStreams", r.status) EXCEPT
        !.tensors = tensors, !.invoked = r.invoked]

GetReservedStreamsRet(order) ==
  [Ret("getReservedStreams", "ok") EXCEPT
     !.streams = getReservedStreams(streams_, order)]

DevicesRet == [Ret("devices", "ok") EXCEPT !.devs = devices(streams_)]

(* ------------------- the environment of the context ------------------- *)
Reserved == {streams_[i] : i \in DOMAIN streams_}

\* the caller enqueues a unit of work on an ambient or a reserved stream
EnqueueWork(s) ==
  /\ Len(work) < MaxWork
  /\ s \in {AmbientStream(i) : i \in Indices} \cup Reserved
  /\ queue' = [queue EXCEPT ![s] = Append(@, Work(Len(work) + 1))]
  /\ work' = Append(work,
       [stream |-> s, epoch |-> waitCalls,
        prereq |-> UNION {synced[i] : i \in {j \in DOMAIN streams_ : streams_[j] = s}}])
  /\ UNCHANGED <<ctxVars, waitCalls, ret, cfgVars, extVars, running, done, recordedOn,
                 completed, synced>>

\* a stream issues its items in order, one unit of work at a time
DeviceStart(s) ==
  /\ running[s] = 0 /\ queue[s] # <<>> /\ Head(queue[s]).kind = "work"
  /\ running' = [running EXCEPT ![s] = Head(queue[s]).n]
  /\ queue' = [queue EXCEPT ![s] = Tail(@)]
  /\ UNCHANGED <<ctxVars, waitCalls, ret, cfgVars, extVars, done, recordedOn, completed,
                 work, synced>>

DeviceFinish(s) ==
  /\ running[s] # 0
  /\ done' = done \cup {running[s]}
  /\ running' = [running EXCEPT ![s] = 0]
  /\ UNCHANGED <<ctxVars, waitCalls, ret, cfgVars, extVars, queue, recordedOn, completed,
                 work, synced>>

\* the marker of an event is reached: the event is complete
DeviceRecord(s) ==
  /\ running[s] = 0 /\ queue[s] # <<>> /\ Head(queue[s]).kind = "record"
  /\ completed' = completed \cup {EventOf(Head(queue[s]))}
  /\ queue' = [queue EXCEPT ![s] = Tail(@)]
  /\ UNCHANGED <<ctxVars, waitCalls, ret, cfgVars, extVars, running, done, recordedOn,
                 work, synced>>

\* a wait is passed once its event is complete
DeviceWait(s) ==
  /\ running[s] = 0 /\ queue[s] # <<>> /\ Head(queue[s]).kind = "wait"
  /\ LET e == EventOf(Head(queue[s]))
     IN e \in DOMAIN recordedOn => e \in completed
  /\ queue' = [queue EXCEPT ![s] = Tail(@)]
  /\ UNCHANGED <<ctxVars, waitCalls, ret, cfgVars, extVars, running, done, recordedOn,
                 completed, work, synced>>

(* --------------------------- specification ---------------------------- *)
(* ============================ the codec =============================== *)

MaxPayload == 1
MaxWireTensors == 2
MaxOffset == 1
MaxSlack == 2
MaxNested == 31

\* width in bytes of a length field
LenWidth == 8

\* bytes a copy has to save before it is made
MinSavedBytes == 1

ByteSamples == {0, 255}

ByteSeqs(n) == UNION {[1..k -> ByteSamples] : k \in 0..n}

RECURSIVE Concat(_)
Concat(seqs) == IF seqs = <<>> THEN <<>> ELSE Head(seqs) \o Concat(Tail(seqs))

Reverse(seq) == [k \in DOMAIN seq |-> seq[Len(seq) + 1 - k]]

\* n in w bytes, most significant first
RECURSIVE EncodeFixed(_, _)
EncodeFixed(n, w) ==
  IF w = 0 THEN <<>> ELSE Append(EncodeFixed(n \div 256, w - 1), n % 256)

EncodeLen(n) == EncodeFixed(n, LenWidth)

\* the number in a length field; every use compares it with a size of at
\* most limit, so a number beyond limit is read as limit + 1
RECURSIVE DecodeFixed(_, _)
DecodeFixed(bytes, limit) ==
  IF bytes = <<>>
    THEN 0
    ELSE LET high == DecodeFixed(SubSeq(bytes, 1, Len(bytes) - 1), limit)
         IN IF high > limit \/ high * 256 + bytes[Len(bytes)] > limit
              THEN limit + 1
              ELSE high * 256 + bytes[Len(bytes)]

DTypes == {"uint8", "int16"}

ItemSize(dtype) == IF dtype = "uint8" THEN 1 ELSE 2

DTypeCode(dtype) == IF dtype = "uint8" THEN 0 ELSE 1

DTypeOfCode(code) == IF code = 0 THEN "uint8" ELSE "int16"

Shapes == {<<0>>, <<2>>, <<1, 2>>}

RECURSIVE Numel(_)
Numel(sizes) == IF sizes = <<>> THEN 1 ELSE Head(sizes) * Numel(Tail(sizes))

\* a tensor: a view of numel elements, offset elements into its storage
WireTensor(dtype, sizes, offset, slack) ==
  [dtype |-> dtype, sizes |-> sizes, offset |-> offset,
   storage |-> [k \in 1..((offset + Numel(sizes)) * ItemSize(dtype) + slack) |-> k]]

WireTensorSet ==
  {WireTensor(dtype, sizes, offset, slack) :
     dtype \in DTypes, sizes \in Shapes, offset \in 0..MaxOffset,
     slack \in 0..MaxSlack}

WireTensorLists == UNION {[1..k -> WireTensorSet] : k \in 0..MaxWireTensors}

\* bytes of the storage the tensor refers to
UsefulBytes(tensor) == Numel(tensor.sizes) * ItemSize(tensor.dtype)

Contents(tensor) ==
  SubSeq(tensor.storage, tensor.offset * ItemSize(tensor.dtype) + 1,
         tensor.offset * ItemSize(tensor.dtype) + UsefulBytes(tensor))

\* a copy whenever the view refers to a part of its storage
WorthCloningAnySaving(tensor) == Len(tensor.storage) > UsefulBytes(tensor)

\* a copy saves at least half of the bytes and more than the minimum
WorthCloning(tensor) ==
  LET saved == Len(tensor.storage) - UsefulBytes(tensor)
  IN 2 * saved >= Len(tensor.storage) /\ saved > MinSavedBytes

Clone(tensor) == [tensor EXCEPT !.offset = 0, !.storage = Contents(tensor)]

cloneSparseTensors(tensors) ==
  [k \in DOMAIN tensors |->
     IF WorthCloning(tensors[k]) THEN Clone(tensors[k]) ELSE tensors[k]]

\* one entry of the metadata table
EncodeMeta(tensor) ==
  <<DTypeCode(tensor.dtype), Len(tensor.sizes)>> \o tensor.sizes
    \o <<tensor.offset, Len(tensor.storage)>>

MetaTable(tensors) ==
  <<Len(tensors)>> \o Concat([k \in DOMAIN tensors |-> EncodeMeta(tensors[k])])

Storages(tensors) == Concat([k \in DOMAIN tensors |-> tensors[k].storage])

\* the wire buffer with the storages in the reverse of the table's order
wireSerializeReversed(payload, tensors) ==
  LET sent == cloneSparseTensors(tensors)
      meta == MetaTable(sent)
  IN EncodeLen(Len(payload)) \o EncodeLen(Len(meta)) \o payload \o meta
       \o Storages(Reverse(sent))

\* [payload_len][meta_len][payload][metadata table][storages in table order]
wireSerialize(payload, tensors) ==
  LET sent == cloneSparseTensors(tensors)
      meta == MetaTable(sent)
  IN EncodeLen(Len(payload)) \o EncodeLen(Len(meta)) \o payload \o meta
       \o Storages(sent)

NoOut ==
  [op |-> "none", status |-> "ok", size |-> 0, payload |-> <<>>,
   tensors |-> <<>>, reach |-> 0, before |-> <<>>]

FormatError(op, reach) ==
  [NoOut EXCEPT !.op = op, !.status = "FormatError", !.reach = reach]

\* the entries of a metadata table, from position pos on
RECURSIVE ParseEntries(_, _, _)
ParseEntries(meta, pos, count) ==
  IF count = 0
    THEN [ok |-> TRUE, entries |-> <<>>]
    ELSE IF pos + 1 > Len(meta) \/ pos + 3 + meta[pos + 1] > Len(meta)
      THEN [ok |-> FALSE, entries |-> <<>>]
      ELSE LET ndim == meta[pos + 1]
               entry == [dtype |-> DTypeOfCode(meta[pos]),
                         sizes |-> SubSeq(meta, pos + 2, pos + 1 + ndim),
                         offset |-> meta[pos + 2 + ndim],
                         nbytes |-> meta[pos + 3 + ndim]]
               rest == ParseEntries(meta, pos + 4 + ndim, count - 1)
           IN [ok |-> rest.ok, entries |-> <<entry>> \o rest.entries]

ParseTable(meta) ==
  IF meta = <<>>
    THEN [ok |-> FALSE, entries |-> <<>>]
    ELSE ParseEntries(meta, 2, meta[1])

RECURSIVE StorageBytes(_)
StorageBytes(entries) ==
  IF entries = <<>> THEN 0 ELSE Head(entries).nbytes + StorageBytes(Tail(entries))

\* the tensors of the entries, their storages taken from position pos on
RECURSIVE ReadTensors(_, _, _)
ReadTensors(bytes, pos, entries) ==
  IF entries = <<>>
    THEN <<>>
    ELSE LET entry == Head(entries)
         IN <<[dtype |-> entry.dtype, sizes |-> entry.sizes,
               offset |-> entry.offset,
               storage |-> SubSeq(bytes, pos, pos + entry.nbytes - 1)]>>
              \o ReadTensors(bytes, pos + entry.nbytes, Tail(entries))

\* the decoder taking the storages from where the table says they are,
\* whatever data_size is
wireDeserializeNoStorageCheck(bytes, data_size) ==
  IF data_size < 2 * LenWidth
    THEN FormatError("wireDeserialize", 0)
    ELSE LET payloadLen == DecodeFixed(SubSeq(bytes, 1, LenWidth), data_size)
             metaLen == DecodeFixed(SubSeq(bytes, LenWidth + 1, 2 * LenWidth),
                                    data_size)
             body == 2 * LenWidth + payloadLen + metaLen
             table == ParseTable(SubSeq(bytes, 2 * LenWidth + payloadLen + 1, body))
         IN IF body > data_size \/ ~ table.ok
              THEN FormatError("wireDeserialize", 2 * LenWidth)
              ELSE [NoOut EXCEPT
                      !.op = "wireDeserialize",
                      !.payload = SubSeq(bytes, 2 * LenWidth + 1,
                                         2 * LenWidth + payloadLen),
                      !.tensors = ReadTensors(bytes, body + 1, table.entries),
                      !.reach = body + StorageBytes(table.entries)]

\* the payload and the tensors of a wire buffer of data_size bytes
wireDeserialize(bytes, data_size) ==
  IF data_size < 2 * LenWidth
    THEN FormatError("wireDeserialize", 0)
    ELSE LET payloadLen == DecodeFixed(SubSeq(bytes, 1, LenWidth), data_size)
             metaLen == DecodeFixed(SubSeq(bytes, LenWidth + 1, 2 * LenWidth),
                                    data_size)
             body == 2 * LenWidth + payloadLen + metaLen
             table == ParseTable(SubSeq(bytes, 2 * LenWidth + payloadLen + 1, body))
         IN IF body > data_size \/ ~ table.ok
              THEN FormatError("wireDeserialize", 2 * LenWidth)
              ELSE IF body + StorageBytes(table.entries) > data_size
                THEN FormatError("wireDeserialize", body)
                ELSE [NoOut EXCEPT
                        !.op = "wireDeserialize",
                        !.payload = SubSeq(bytes, 2 * LenWidth + 1,
                                           2 * LenWidth + payloadLen),
                        !.tensors = ReadTensors(bytes, body + 1, table.entries),
                        !.reach = body + StorageBytes(table.entries)]

\* the combined payload with the length ahead of the wrapped segment
writeWrappedPayloadLengthFirst(payload, additionalPayload) ==
  payload \o EncodeLen(Len(additionalPayload)) \o additionalPayload

\* the original payload, the wrapped payload, the length of the wrapped payload
writeWrappedPayload(payload, additionalPayload) ==
  payload \o additionalPayload \o EncodeLen(Len(additionalPayload))

\* the wrapped segment named by the trailing length, and the payload cut
\* back to what is ahead of it
readWrappedPayload(payload) ==
  IF Len(payload) < LenWidth
    THEN [status |-> "FormatError", payload |-> payload, wrapped |-> <<>>]
    ELSE LET room == Len(payload) - LenWidth
             additionalSize ==
               DecodeFixed(SubSeq(payload, room + 1, Len(payload)), room)
         IN IF additionalSize > room
              THEN [status |-> "FormatError", payload |-> payload,
                    wrapped |-> <<>>]
              ELSE [status |-> "ok",
                    payload |-> SubSeq(payload, 1, room - additionalSize),
                    wrapped |-> SubSeq(payload, room - additionalSize + 1, room)]

WireSerialize ==
  /\ data' = wireSerialize(originalPayload, wireTensors)
  /\ out' = [NoOut EXCEPT !.op = "wireSerialize", !.size = Len(data')]
  /\ UNCHANGED <<originalPayload, wireTensors>>

WireDeserialize(data_size) ==
  /\ out' = [wireDeserialize(data, data_size) EXCEPT !.size = data_size]
  /\ UNCHANGED <<originalPayload, wireTensors, data>>

CloneSparseTensors ==
  /\ out' = [NoOut EXCEPT !.op = "cloneSparseTensors",
                          !.tensors = cloneSparseTensors(wireTensors)]
  /\ UNCHANGED <<originalPayload, wireTensors, data>>

WriteWrappedPayload(additionalPayload) ==
  /\ Len(originalPayload) + Len(additionalPayload) + LenWidth <= MaxNested
  /\ originalPayload' = writeWrappedPayload(originalPayload, additionalPayload)
  /\ out' = [NoOut EXCEPT !.op = "writeWrappedPayload",
                          !.payload = additionalPayload,
                          !.before = originalPayload]
  /\ UNCHANGED <<wireTensors, data>>

ReadWrappedPayload ==
  /\ LET r == readWrappedPayload(originalPayload)
     IN /\ originalPayload' = r.payload
        /\ out' = [NoOut EXCEPT !.op = "readWrappedPayload",
                                !.status = r.status,
                                !.payload = r.wrapped,
                                !.before = originalPayload]
  /\ UNCHANGED <<wireTensors, data>>

(* ============ getStream called from more than one thread ============== *)

MaxCalls == 2

Threads == {1, 2}

NoCall == [type |-> "none", index |-> -1, stream |-> NoStream]

\* unordered_map::emplace stores nothing when the key is present
EmplaceNothing(streams, index, stream) == streams

Emplace(streams, index, stream) ==
  IF index \in DOMAIN streams THEN streams ELSE (index :> stream) @@ streams

\* the threads that are inside emplace, other than t
Emplacing(t) == {u \in Threads \ {t} : pc[u] = "emplacing"}

\* what streams_.find(index) can yield: the entry or end(); a find that runs
\* while another thread is inside emplace races with it and can miss, or
\* see the entry being stored
FindOutcomes(t, index) ==
  (IF index \in DOMAIN streams_ THEN {streams_[index]} ELSE {NoStream})
    \cup (IF Emplacing(t) # {} THEN {NoStream} ELSE {})
    \cup {local[u].stream : u \in {v \in Emplacing(t) : local[v].index = index}}

\* thread t enters getStream(device_type, index) and looks the index up
Find(t, device_type, index) ==
  /\ pc[t] = "idle"
  /\ calls[t] < MaxCalls
  /\ calls' = [calls EXCEPT ![t] = @ + 1]
  /\ overlapped' = (overlapped \/ \E u \in Threads \ {t} : pc[u] # "idle")
  /\ \E found \in FindOutcomes(t, index) :
       /\ local' = [local EXCEPT ![t] = [type |-> device_type, index |-> index,
                                         stream |-> found]]
       /\ pc' = [pc EXCEPT ![t] = IF found = NoStream THEN "miss" ELSE "hit"]
  /\ UNCHANGED <<ctxVars, cfgVars, waitCalls, ret, devVars, wireVars, handed, created>>

\* the index was found: return the entry
ReturnCached(t) ==
  /\ pc[t] = "hit"
  /\ handed' = [handed EXCEPT ![local[t].index] = @ \cup {local[t].stream}]
  /\ pc' = [pc EXCEPT ![t] = "idle"]
  /\ UNCHANGED <<ctxVars, cfgVars, waitCalls, ret, devVars, wireVars, local, calls,
                 created, overlapped>>

\* the index was not found: ask the creator for a stream
Create(t) ==
  /\ pc[t] = "miss"
  /\ LET stream == StreamCreator(cudaAvailable, poolNext, local[t].type,
                                 local[t].index)
     IN /\ stream # NoStream
        /\ poolNext' = PoolAfter(poolNext, stream)
        /\ local' = [local EXCEPT ![t].stream = stream]
  /\ created' = [created EXCEPT ![local[t].index] = @ + 1]
  /\ pc' = [pc EXCEPT ![t] = "created"]
  /\ UNCHANGED <<streams_, first, cfgVars, waitCalls, ret, devVars, wireVars, calls,
                 handed, overlapped>>

\* the creator has no stream for the device type: getStream throws
CreateThrows(t) ==
  /\ pc[t] = "miss"
  /\ StreamCreator(cudaAvailable, poolNext, local[t].type, local[t].index)
       = NoStream
  /\ pc' = [pc EXCEPT ![t] = "idle"]
  /\ UNCHANGED <<ctxVars, cfgVars, waitCalls, ret, devVars, wireVars, local, calls,
                 handed, created, overlapped>>

\* thread t enters streams_.emplace
EmplaceBegin(t) ==
  /\ pc[t] = "created"
  /\ pc' = [pc EXCEPT ![t] = "emplacing"]
  /\ UNCHANGED <<ctxVars, cfgVars, waitCalls, ret, devVars, wireVars, local, calls,
                 handed, created, overlapped>>

\* thread t leaves streams_.emplace; two emplace calls that run at the same
\* time race, and the later one can store over the earlier
EmplaceEnd(t) ==
  /\ pc[t] = "emplacing"
  /\ \/ streams_' = Emplace(streams_, local[t].index, local[t].stream)
     \/ /\ Emplacing(t) # {}
        /\ streams_' = (local[t].index :> local[t].stream) @@ streams_
  /\ pc' = [pc EXCEPT ![t] = "emplaced"]
  /\ UNCHANGED <<poolNext, first, cfgVars, waitCalls, ret, devVars, wireVars, local,
                 calls, handed, created, overlapped>>

\* return the stream the creator made
ReturnCreated(t) ==
  /\ pc[t] = "emplaced"
  /\ handed' = [handed EXCEPT ![local[t].index] = @ \cup {local[t].stream}]
  /\ pc' = [pc EXCEPT ![t] = "idle"]
  /\ UNCHANGED <<ctxVars, cfgVars, waitCalls, ret, devVars, wireVars, local, calls,
                 created, overlapped>>

Init ==
  /\ streams_ = <<>>
  /\ cudaAvailable \in BOOLEAN
  /\ currentAvail \in [Indices -> BOOLEAN]
  /\ poolNext = [i \in Indices |-> 0]
  /\ first = <<>>
  /\ waitCalls = 0
  /\ ret = [Ret("none", "ok") EXCEPT !.before = <<>>]
  /\ queue = [s \in AllStreams |-> <<>>]
  /\ running = [s \in AllStreams |-> 0]
  /\ done = {}
  /\ recordedOn = <<>>
  /\ completed = {}
  /\ work = <<>>
  /\ synced = [i \in Indices |-> {}]
  /\ pc = [t \in Threads |-> "idle"]
  /\ local = [t \in Threads |-> NoCall]
  /\ calls = [t \in Threads |-> 0]
  /\ handed = [i \in Indices |-> {}]
  /\ created = [i \in Indices |-> 0]
  /\ overlapped = FALSE
  /\ originalPayload = <<>>
  /\ wireTensors = <<>>
  /\ data = <<>>
  /\ out = NoOut

CallGetStream(t, i) ==
  GetStream(t, i) /\ ret' = GetStreamRet(t, i) /\ UNCHANGED extVars

CallWaitForCurrentStreams(tensors) ==
  /\ WaitForCurrentStreams(tensors)
  /\ ret' = WaitForCurrentStreamsRet(tensors)
  /\ UNCHANGED extVars

\* the calls on the context, each observed by its caller
Next ==
  \/ \E t \in Types, i \in Indices : CallGetStream(t, i)
  \/ \E tensors \in TensorLists : CallWaitForCurrentStreams(tensors)
  \/ \E order \in Orders(DOMAIN streams_) :
       GetReservedStreams /\ ret' = GetReservedStreamsRet(order)
                          /\ UNCHANGED extVars
  \/ Devices /\ ret' = DevicesRet /\ UNCHANGED extVars

Spec == Init /\ [][Next]_vars

\* the calls on the context together with the device executing its streams
NextSync ==
  \/ \E t \in Types, i \in Indices :
       GetStream(t, i) /\ UNCHANGED <<ret, extVars>>
  \/ \E tensors \in TensorLists :
       WaitForCurrentStreams(tensors) /\ UNCHANGED <<ret, extVars>>
  \/ \E s \in AllStreams : EnqueueWork(s)
  \/ \E s \in AllStreams : DeviceStart(s)
  \/ \E s \in AllStreams : DeviceFinish(s)
  \/ \E s \in AllStreams : DeviceRecord(s)
  \/ \E s \in AllStreams : DeviceWait(s)

SpecSync == Init /\ [][NextSync]_vars

\* two threads calling getStream on one context
NextMT ==
  \/ \E t \in Threads, device_type \in Types, index \in Indices :
       Find(t, device_type, index)
  \/ \E t \in Threads : ReturnCached(t)
  \/ \E t \in Threads : Create(t)
  \/ \E t \in Threads : CreateThrows(t)
  \/ \E t \in Threads : EmplaceBegin(t)
  \/ \E t \in Threads : EmplaceEnd(t)
  \/ \E t \in Threads : ReturnCreated(t)

SpecMT == Init /\ [][NextMT]_vars

\* the rest of the state while the codec runs
Idle == UNCHANGED <<ctxVars, cfgVars, waitCalls, ret, devVars, thrVars>>

\* a context nobody calls
InitIdle ==
  /\ streams_ = <<>>
  /\ cudaAvailable = TRUE
  /\ currentAvail = [i \in Indices |-> TRUE]
  /\ poolNext = [i \in Indices |-> 0]
  /\ first = <<>>
  /\ waitCalls = 0
  /\ ret = [Ret("none", "ok") EXCEPT !.before = <<>>]
  /\ queue = [s \in AllStreams |-> <<>>]
  /\ running = [s \in AllStreams |-> 0]
  /\ done = {}
  /\ recordedOn = <<>>
  /\ completed = {}
  /\ work = <<>>
  /\ synced = [i \in Indices |-> {}]
  /\ pc = [t \in Threads |-> "idle"]
  /\ local = [t \in Threads |-> NoCall]
  /\ calls = [t \in Threads |-> 0]
  /\ handed = [i \in Indices |-> {}]
  /\ created = [i \in Indices |-> 0]
  /\ overlapped = FALSE

\* a message to encode: its payload and its tensors
InitWire ==
  /\ InitIdle
  /\ originalPayload \in ByteSeqs(MaxPayload)
  /\ wireTensors \in WireTensorLists
  /\ data = <<>>
  /\ out = NoOut

NextWire ==
  \/ WireSerialize /\ Idle
  \/ \E data_size \in 0..Len(data) : WireDeserialize(data_size) /\ Idle

SpecWire == InitWire /\ [][NextWire]_vars

NextClone == CloneSparseTensors /\ Idle

SpecClone == InitWire /\ [][NextClone]_vars

\* a payload to wrap
InitNest ==
  /\ InitIdle
  /\ originalPayload \in ByteSeqs(MaxPayload)
  /\ wireTensors = <<>>
  /\ data = <<>>
  /\ out = NoOut

NextNest ==
  \/ \E additionalPayload \in ByteSeqs(MaxPayload) :
       WriteWrappedPayload(additionalPayload) /\ Idle
  \/ ReadWrappedPayload /\ Idle

SpecNest == InitNest /\ [][NextNest]_vars

(* ======================= properties of the cache ====================== *)

\* C2: getStream is idempotent per index: the first successful call for an
\* index invokes the creator once and caches its stream; every later call for
\* that index, made directly or by waitForCurrentStreams, returns that same
\* handle and does not invoke the creator.
C2_GetStreamIdempotent ==
  [][(\A t \in Types, i \in Indices :
        CallGetStream(t, i) =>
          IF i \in DOMAIN first
            THEN /\ ret'.status = "ok"
                 /\ ret'.stream = first[i]
                 /\ ret'.invoked[i] = 0
            ELSE ret'.status = "ok" =>
                   /\ ret'.invoked[i] = 1
                   /\ i \in DOMAIN first' /\ first'[i] = ret'.stream
                   /\ i \in DOMAIN streams_' /\ streams_'[i] = ret'.stream)
     /\ (\A tensors \in TensorLists :
          CallWaitForCurrentStreams(tensors) =>
            \A j \in DOMAIN first : ret'.invoked[j] = 0 /\ first'[j] = first[j])
    ]_vars

\* a second getStream for a cached index, after a waitForCurrentStreams call
C2_Witness ==
  /\ ret.op = "getStream" /\ ret.status = "ok"
  /\ ret.index \in DOMAIN ret.before
  /\ ret.invoked[ret.index] = 0
  /\ ret.stream = first[ret.index]
  /\ waitCalls > 0

\* C4: after waitForCurrentStreams(tensors) returns normally the index of
\* every tensor is reserved, the indices reserved before keep their stream,
\* and every newly reserved index is the index of a tensor and got its stream
\* from exactly one creator invocation.
C4_WaitReservesEveryTensor ==
  [][\A tensors \in TensorLists :
       (CallWaitForCurrentStreams(tensors) /\ ret'.status = "ok") =>
         /\ \A k \in DOMAIN tensors : tensors[k].index \in devices(streams_')
         /\ \A i \in DOMAIN streams_ :
              i \in DOMAIN streams_' /\ streams_'[i] = streams_[i]
         /\ \A i \in DOMAIN streams_' \ DOMAIN streams_ :
              /\ \E k \in DOMAIN tensors : tensors[k].index = i
              /\ ret'.invoked[i] = 1
    ]_vars

\* a call over two tensors, one on a reserved index and one on a new index
C4_Witness ==
  /\ ret.op = "waitForCurrentStreams" /\ ret.status = "ok"
  /\ Len(ret.tensors) = 2
  /\ \E j, k \in DOMAIN ret.tensors :
       /\ ret.tensors[j].index \in DOMAIN ret.before
       /\ ret.tensors[k].index \notin DOMAIN ret.before
       /\ ret.tensors[k].index \in DOMAIN streams_
       /\ streams_[ret.tensors[j].index] = ret.before[ret.tensors[j].index]

\* C5 (as claimed): when the creator returns nothing for the device type,
\* getStream returns nothing without an error, and waitForCurrentStreams over
\* tensors of such a device completes normally and reserves nothing.
C5_NoStreamIsNoOp ==
  /\ (/\ ret.op = "getStream"
      /\ ret.index \notin DOMAIN ret.before
      /\ StreamCreator(cudaAvailable, poolNext, ret.type, ret.index) = NoStream)
       => (ret.status = "ok" /\ ret.stream = NoStream)
  /\ (/\ ret.op = "waitForCurrentStreams"
      /\ \A k \in DOMAIN ret.tensors :
           /\ ret.tensors[k].index \notin DOMAIN ret.before
           /\ StreamCreator(cudaAvailable, poolNext, ret.tensors[k].type,
                            ret.tensors[k].index) = NoStream)
       => (ret.status = "ok" /\ streams_ = ret.before)

C7_DistinctStreams ==
  /\ \A i, j \in DOMAIN streams_ : i # j => streams_[i] # streams_[j]
  /\ \A i, j \in DOMAIN first : i # j => first[i] # first[j]

\* two indices hold a stream each
C7_Witness ==
  /\ Cardinality(DOMAIN streams_) >= 2
  /\ \E i, j \in DOMAIN first : i # j /\ first[i] # first[j]

(* =================== properties of the synchronisation ================ *)
Started == done \cup ({running[s] : s \in AllStreams} \ {0})

\* the units of work an event still waits for: those ahead of its marker
Blockers(e) ==
  IF e \notin DOMAIN recordedOn \/ e \in completed
    THEN {}
    ELSE LET s == recordedOn[e]
             at == {k \in DOMAIN queue[s] : queue[s][k] = Record(e)}
         IN IF at = {}
              THEN {}
              ELSE LET last == CHOOSE k \in at : \A m \in at : m <= k
                   IN {queue[s][k].n :
                         k \in {m \in 1..last : queue[s][m].kind = "work"}}
                      \cup ({running[s]} \ {0})

\* C1: a unit of work enqueued on the reserved stream of a device after a
\* waitForCurrentStreams call that synchronised the device starts only when
\* all work enqueued on the device's current stream before that call is done.
C1_AmbientBeforeReserved ==
  \A w \in Started : work[w].prereq \subseteq done

\* reserved-stream work that had ambient work to follow has started
C1_Witness ==
  \E w \in Started :
    /\ work[w].prereq # {}
    /\ work[w].prereq \subseteq done
    /\ \E i \in DOMAIN streams_ : work[w].stream = streams_[i]

\* C3: a waitForCurrentStreams call that returns normally synchronises every
\* reserved device whose provider reports a current stream: one new event
\* per such device, recorded on that current stream, with the device's
\* reserved stream made to wait on it; no other stream is touched.
C3_EveryReservedDeviceSynced ==
  [][waitCalls' = waitCalls + 1 =>
       LET new == DOMAIN recordedOn' \ DOMAIN recordedOn
           Cur(i) == CurrentStreamProvider(currentAvail, streams_'[i].type, i)
           due == {i \in DOMAIN streams_' : Cur(i) # NoStream}
       IN /\ Cardinality(new) = Cardinality(due)
          /\ \A i \in due :
               \E e \in new :
                 /\ recordedOn'[e] = Cur(i)
                 /\ queue'[Cur(i)] = Append(queue[Cur(i)], Record(e))
                 /\ queue'[streams_'[i]] = Append(queue[streams_'[i]], Wait(e))
          /\ \A s \in AllStreams :
               (\A i \in due : s # Cur(i) /\ s # streams_'[i]) =>
                 queue'[s] = queue[s]
    ]_vars

\* a call with no tensors synchronised a device reserved before it
C3_Witness ==
  /\ ret.op = "waitForCurrentStreams" /\ ret.status = "ok"
  /\ ret.tensors = <<>>
  /\ \E i \in DOMAIN ret.before :
       LET e == NewEvent(waitCalls, i)
           a == queue[AmbientStream(i)]
           q == queue[streams_[i]]
       IN /\ a # <<>> /\ a[Len(a)] = Record(e)
          /\ q # <<>> /\ q[Len(q)] = Wait(e)

\* one tensor list per set of CUDA devices (the second loop depends on the
\* tensors only through the indices they reserve)
DeviceSetLists ==
  {tensors \in TensorLists :
     \A k \in DOMAIN tensors :
       /\ tensors[k].type = "CUDA"
       /\ k > 1 => tensors[k - 1].index < tensors[k].index}

\* C8: waitForCurrentStreams does not wait for device work: the call can be
\* made and returns whatever the streams still hold, and waits are inserted
\* in reserved streams only.
C8_HostNeverBlocks ==
  /\ \A tensors \in DeviceSetLists :
       waitCalls < MaxWaitCalls => ENABLED WaitForCurrentStreams(tensors)
  /\ \A s \in AllStreams :
       (\E k \in DOMAIN queue[s] : queue[s][k].kind = "wait") => s \in Reserved

\* the call has returned, the ambient stream still holds the work the event
\* covers, and the reserved stream is held at the wait
C8_Witness ==
  \E i \in DOMAIN streams_ :
    LET e == NewEvent(waitCalls, i)
    IN /\ waitCalls > 0
       /\ e \in DOMAIN recordedOn /\ e \notin completed
       /\ Blockers(e) # {} /\ Blockers(e) \cap done = {}
       /\ queue[streams_[i]] # <<>> /\ Head(queue[streams_[i]]) = Wait(e)
       /\ ~ ENABLED DeviceWait(streams_[i])

\* C9: a recorded event covers only the work enqueued on its stream up to the
\* record: the work an event waits for never grows, so work enqueued on the
\* ambient stream afterwards does not hold the reserved stream back.
C9_LaterAmbientWorkUnordered ==
  [][\A e \in DOMAIN recordedOn : Blockers(e)' \subseteq Blockers(e)]_vars

\* reserved-stream work enqueued after a call has started while ambient work
\* of the same device enqueued after that call has not
C9_Witness ==
  \E i \in DOMAIN streams_ :
    \E w \in Started, v \in (1..Len(work)) \ Started :
      /\ NewEvent(1, i) \in DOMAIN recordedOn
      /\ work[w].stream = streams_[i] /\ work[w].epoch >= 1
      /\ work[v].stream = AmbientStream(i) /\ work[v].epoch >= 1

\* C10: every wait in the reserved stream of a device refers to an event
\* recorded on the current stream reported for that same device, and such an
\* event waits for work of that device only.
C10_PerDeviceSync ==
  \A i \in DOMAIN streams_ :
    \A k \in DOMAIN queue[streams_[i]] :
      LET item == queue[streams_[i]][k]
      IN item.kind = "wait" =>
           /\ EventOf(item) \in DOMAIN recordedOn
           /\ recordedOn[EventOf(item)]
                = CurrentStreamProvider(currentAvail, streams_[i].type, i)
           /\ \A w \in Blockers(EventOf(item)) : work[w].stream.index = i

\* the reserved stream of one device runs work enqueued after a call that
\* synchronised two devices, while the other device's ambient work from
\* before the call is unfinished
C10_Witness ==
  \E i, j \in DOMAIN streams_ :
    \E w \in Started, v \in (1..Len(work)) \ done :
      /\ i # j
      /\ NewEvent(1, i) \in DOMAIN recordedOn
      /\ NewEvent(1, j) \in DOMAIN recordedOn
      /\ work[w].stream = streams_[i] /\ work[w].epoch >= 1
      /\ work[v].stream = AmbientStream(j) /\ work[v].epoch = 0
      /\ v \in synced[j]

(* ================= further properties of the cache ==================== *)

\* C11: getReservedStreams() and devices() change nothing and invoke no
\* provider; devices() is the set of indices for which getStream succeeded
\* and getReservedStreams() holds, for each of them and for nothing else, the
\* stream getStream returned for it, once.
C11_IntrospectionReadOnly ==
  [][/\ (ret' # ret /\ ret'.op \in {"getReservedStreams", "devices"}) =>
          /\ UNCHANGED <<streams_, poolNext, first, waitCalls>>
          /\ UNCHANGED <<queue, recordedOn, completed>>
          /\ ret'.invoked = NoneInvoked
     /\ devices(streams_') = DOMAIN first'
     /\ ret'.op = "devices" => ret'.devs = DOMAIN first'
     /\ \A order \in Orders(DOMAIN streams_') :
          LET r == getReservedStreams(streams_', order)
          IN /\ Len(r) = Cardinality(DOMAIN first')
             /\ \A i \in DOMAIN first' :
                  Cardinality({k \in DOMAIN r : r[k] = first'[i]}) = 1
     /\ ret'.op = "getReservedStreams" =>
          /\ Len(ret'.streams) = Cardinality(DOMAIN first')
          /\ \A i \in DOMAIN first' :
               Cardinality({k \in DOMAIN ret'.streams :
                              ret'.streams[k] = first'[i]}) = 1
    ]_vars

\* getReservedStreams() on a context that reserved two devices
C11_Witness ==
  /\ ret.op = "getReservedStreams"
  /\ Len(ret.streams) = 2
  /\ DOMAIN streams_ = DOMAIN ret.before /\ Cardinality(DOMAIN streams_) = 2

\* C17: in a waitForCurrentStreams call whose first loop succeeds, a reserved
\* device whose provider reports no current stream gets no event and no wait,
\* the call returns normally, and the other reserved devices get their wait.
C17_NoCurrentStreamSkipped ==
  [][\A tensors \in TensorLists :
       (/\ CallWaitForCurrentStreams(tensors)
        /\ \A k \in DOMAIN tensors :
             \/ tensors[k].index \in DOMAIN streams_
             \/ StreamCreator(cudaAvailable, poolNext, tensors[k].type,
                              tensors[k].index) # NoStream) =>
         /\ ret'.status = "ok"
         /\ \A i \in DOMAIN streams_' :
              IF CurrentStreamProvider(currentAvail, streams_'[i].type, i) = NoStream
                THEN /\ queue'[streams_'[i]] = queue[streams_'[i]]
                     /\ queue'[AmbientStream(i)] = queue[AmbientStream(i)]
                     /\ NewEvent(waitCalls', i) \notin DOMAIN recordedOn'
                ELSE queue'[streams_'[i]]
                       = Append(queue[streams_'[i]], Wait(NewEvent(waitCalls', i)))
    ]_vars

\* a call over two reserved devices, one without a current stream
C17_Witness ==
  /\ ret.op = "waitForCurrentStreams" /\ ret.status = "ok"
  /\ \E i, j \in DOMAIN streams_ :
       /\ ~ currentAvail[i] /\ currentAvail[j]
       /\ queue[streams_[i]] = <<>> /\ queue[AmbientStream(i)] = <<>>
       /\ queue[streams_[j]] # <<>>
       /\ queue[streams_[j]][Len(queue[streams_[j]])]
            = Wait(NewEvent(waitCalls, j))

\* C18: the cache only grows: no call removes a reserved index or replaces
\* its stream.
C18_CacheOnlyGrows ==
  [][\A i \in DOMAIN streams_ :
       i \in DOMAIN streams_' /\ streams_'[i] = streams_[i]]_vars

\* a getStream for a reserved index that left the entry as it was, while the
\* cache grew to two entries
C18_Witness ==
  /\ ret.op = "getStream" /\ ret.status = "ok"
  /\ ret.index \in DOMAIN ret.before
  /\ streams_[ret.index] = ret.before[ret.index]
  /\ Cardinality(DOMAIN streams_) = 2
  /\ waitCalls > 0

\* the first position of a tensor list at which getStream raises
FailsAt(tensors, k) ==
  /\ StreamCreator(cudaAvailable, poolNext, tensors[k].type, tensors[k].index)
       = NoStream
  /\ tensors[k].index \notin DOMAIN streams_
  /\ \A j \in 1..(k - 1) :
       tensors[j].index = tensors[k].index =>
         StreamCreator(cudaAvailable, poolNext, tensors[j].type, tensors[j].index)
           = NoStream

FirstFailure(tensors) ==
  CHOOSE k \in DOMAIN tensors :
    FailsAt(tensors, k) /\ \A j \in 1..(k - 1) : ~ FailsAt(tensors, j)

\* C19: when getStream fails for a tensor, waitForCurrentStreams raises
\* before its second loop: no event is recorded and no wait inserted on any
\* device, and the cache holds what it held plus the streams of the tensors
\* ahead of the failing one.
C19_FailureAbortsBeforeSync ==
  [][\A tensors \in TensorLists :
       (/\ CallWaitForCurrentStreams(tensors)
        /\ \E k \in DOMAIN tensors : FailsAt(tensors, k)) =>
         /\ ret'.status = "error"
         /\ UNCHANGED <<queue, recordedOn, completed, waitCalls>>
         /\ \A i \in DOMAIN streams_ :
              i \in DOMAIN streams_' /\ streams_'[i] = streams_[i]
         /\ DOMAIN streams_'
              = DOMAIN streams_ \cup
                {tensors[j].index : j \in 1..(FirstFailure(tensors) - 1)}
    ]_vars

\* a failed call whose first tensor got its stream: the device has a current
\* stream, so the second loop would have synchronised it, and nothing was
\* enqueued for it
C19_Witness ==
  /\ ret.op = "waitForCurrentStreams" /\ ret.status = "error"
  /\ Len(ret.tensors) = 2
  /\ LET i == ret.tensors[1].index
     IN /\ i \notin DOMAIN ret.before
        /\ i \in DOMAIN streams_
        /\ ret.tensors[2].index \notin DOMAIN streams_
        /\ currentAvail[i]
        /\ queue[streams_[i]] = <<>> /\ queue[AmbientStream(i)] = <<>>

\* C20: the cache is keyed by the index alone: getStream for a cached index
\* returns the cached stream, whatever its device type, without invoking the
\* creator, and waitForCurrentStreams asks the provider with the device type
\* of the cached stream.
C20_KeyedByIndexOnly ==
  [][/\ \A t \in Types, i \in Indices :
          (CallGetStream(t, i) /\ i \in DOMAIN streams_) =>
            /\ ret'.status = "ok"
            /\ ret'.stream = streams_[i]
            /\ ret'.invoked[i] = 0
     /\ \A tensors \in TensorLists :
          (CallWaitForCurrentStreams(tensors) /\ ret'.status = "ok") =>
            \A i \in DOMAIN streams_' :
              LET cur == CurrentStreamProvider(currentAvail, streams_'[i].type, i)
              IN cur # NoStream =>
                   queue'[cur] = Append(queue[cur], Record(NewEvent(waitCalls', i)))
    ]_vars

\* a call over a CPU tensor whose index holds a CUDA stream: the event is
\* recorded on the CUDA current stream of that index
C20_Witness ==
  /\ ret.op = "waitForCurrentStreams" /\ ret.status = "ok"
  /\ Len(ret.tensors) = 1 /\ ret.tensors[1].type = "CPU"
  /\ LET i == ret.tensors[1].index
         a == queue[AmbientStream(i)]
     IN /\ i \in DOMAIN streams_ /\ streams_[i].type = "CUDA"
        /\ ret.invoked[i] = 0
        /\ a # <<>> /\ a[Len(a)] = Record(NewEvent(waitCalls, i))

(* ==================== getStream from two threads ====================== *)

\* C12: nothing orders the find, create and emplace steps of two threads:
\* getStream is idempotent per index (one creator invocation, one handle) as
\* long as no call begins while another is in progress, and only then: the
\* creator makes a second stream for an index, or callers get different
\* handles for it, only when calls overlapped.
C12_IdempotentOnlyWhenConfined ==
  \A i \in Indices :
    (created[i] > 1 \/ Cardinality(handed[i]) > 1) => overlapped

\* two threads, one call each for the same index: the creator ran twice and
\* the callers hold different handles
C12_Witness ==
  /\ \A t \in Threads : pc[t] = "idle" /\ calls[t] = 1
  /\ local[1].index = local[2].index
  /\ local[1].stream # local[2].stream
  /\ created[local[1].index] = 2
  /\ handed[local[1].index] = {local[1].stream, local[2].stream}
  /\ NoStream \notin handed[local[1].index]

(* ============================ the codec =============================== *)

\* what a decoded tensor has to share with the tensor that was encoded
SameTensor(decoded, tensor) ==
  /\ decoded.dtype = tensor.dtype
  /\ decoded.sizes = tensor.sizes
  /\ Contents(decoded) = Contents(tensor)

\* C13: decoding the whole buffer wireSerialize made of a payload and a
\* tensor list, either of which may be empty, gives the same payload bytes
\* and as many tensors, in the same order, each with the shape, element type
\* and contents of the one encoded.
C13_WireRoundTrip ==
  (/\ out.op = "wireDeserialize"
   /\ data = wireSerialize(originalPayload, wireTensors)
   /\ out.size = Len(data)) =>
    /\ out.status = "ok"
    /\ out.payload = originalPayload
    /\ Len(out.tensors) = Len(wireTensors)
    /\ \A k \in DOMAIN wireTensors : SameTensor(out.tensors[k], wireTensors[k])

\* two different tensors, the first a view into a larger storage, decoded in
\* their order
C13_Witness ==
  /\ out.op = "wireDeserialize" /\ out.status = "ok"
  /\ out.size = Len(data) /\ data # <<>>
  /\ originalPayload # <<>> /\ out.payload = originalPayload
  /\ Len(wireTensors) = 2 /\ Len(out.tensors) = 2
  /\ wireTensors[1].offset > 0
  /\ Contents(wireTensors[1]) # Contents(wireTensors[2])
  /\ \A k \in 1..2 : SameTensor(out.tensors[k], wireTensors[k])

\* C14: writeWrappedPayload leaves the original payload, then the wrapped
\* payload, then the fixed-width length of the wrapped payload in the
\* buffer; readWrappedPayload on that buffer cuts it back to the original
\* payload and yields the bytes of the wrapped payload.
C14_NestingRoundTrip ==
  [][\A additionalPayload \in ByteSeqs(MaxPayload) :
       WriteWrappedPayload(additionalPayload) =>
         /\ originalPayload' = originalPayload \o additionalPayload
                                 \o EncodeLen(Len(additionalPayload))
         /\ Len(originalPayload')
              = Len(originalPayload) + Len(additionalPayload) + LenWidth
         /\ readWrappedPayload(originalPayload')
              = [status |-> "ok", payload |-> originalPayload,
                 wrapped |-> additionalPayload]
    ]_vars

\* a payload wrapped twice and unwrapped once: the inner wrapping is intact
C14_Witness ==
  /\ out.op = "readWrappedPayload" /\ out.status = "ok"
  /\ out.payload # <<>>
  /\ out.before = originalPayload \o out.payload \o EncodeLen(Len(out.payload))
  /\ Len(originalPayload) > LenWidth
  /\ readWrappedPayload(originalPayload).status = "ok"
  /\ readWrappedPayload(originalPayload).wrapped # <<>>

\* C15: wireDeserialize on a wire buffer cut short of its length fails with
\* FormatError and reads nothing beyond data_size; whatever data_size is, it
\* does not succeed with a payload or tensors other than the encoded ones.
C15_TruncationSafety ==
  (/\ out.op = "wireDeserialize"
   /\ data = wireSerialize(originalPayload, wireTensors)) =>
    /\ out.reach <= out.size
    /\ out.size < Len(data) => out.status = "FormatError"
    /\ out.status = "ok" =>
         /\ out.payload = originalPayload
         /\ out.tensors = cloneSparseTensors(wireTensors)

\* a buffer with tensor storage cut inside the storage section
C15_Witness ==
  /\ out.op = "wireDeserialize" /\ out.status = "FormatError"
  /\ data = wireSerialize(originalPayload, wireTensors)
  /\ wireTensors # <<>>
  /\ out.size < Len(data)
  /\ out.size > Len(data) - Len(Storages(cloneSparseTensors(wireTensors)))
  /\ out.reach > 2 * LenWidth

\* C16: cloneSparseTensors gives a tightly packed copy of a tensor exactly
\* when the tensor takes up at most half of the bytes of its storage and the
\* bytes saved are more than the minimum; any other tensor comes out as it
\* went in, and the input list is left as it was.
C16_DensificationThreshold ==
  [][CloneSparseTensors =>
       /\ wireTensors' = wireTensors
       /\ Len(out'.tensors) = Len(wireTensors)
       /\ \A k \in DOMAIN wireTensors :
            LET tensor == wireTensors[k]
                result == out'.tensors[k]
            IN IF /\ 2 * UsefulBytes(tensor) <= Len(tensor.storage)
                  /\ Len(tensor.storage) - UsefulBytes(tensor) > MinSavedBytes
                 THEN /\ result.storage = Contents(tensor)
                      /\ result.offset = 0
                      /\ result.dtype = tensor.dtype
                      /\ result.sizes = tensor.sizes
                      /\ result # tensor
                 ELSE result = tensor
    ]_vars

\* one tensor copied; one passed through that takes up more than half of its
\* storage although a copy would save more than the minimum
C16_Witness ==
  /\ out.op = "cloneSparseTensors"
  /\ Len(wireTensors) = 2
  /\ out.tensors[1] # wireTensors[1]
  /\ Len(out.tensors[1].storage) = UsefulBytes(wireTensors[1])
  /\ out.tensors[2] = wireTensors[2]
  /\ 2 * UsefulBytes(wireTensors[2]) > Len(wireTensors[2].storage)
  /\ Len(wireTensors[2].storage) - UsefulBytes(wireTensors[2]) > MinSavedBytes

====
